---- MODULE Spec2Model ----
(***************************************************************************)
(* Model of one run of the VFS appointment bot: VfsBot.run with its        *)
(* helpers get_appointment_params and notify_appointment (vfs_bot.py) and  *)
(* the Netherlands adapter VfsBotNl (vfs_bot_nl.py).  The adapter is       *)
(* either VfsBotNl or an arbitrary subclass of VfsBot ("fake") whose three *)
(* capabilities may return or raise freely.                                *)
(*                                                                         *)
(* Python values are encoded with uniform types: None is the record        *)
(* [kind |-> "none"] for a date result and the string NoneVal for an       *)
(* argument value; an absent configuration key is present = FALSE.         *)
(***************************************************************************)
EXTENDS Integers, Sequences, FiniteSets, TLC

\* ------------------------------------------------------------------ bounds
MaxChannels == 2
MaxDates == 2

\* ------------------------------------------------------- program constants
\* VfsBotNl.__init__: the adapter-declared, ordered parameter keys.
appointment_param_keys == <<"visa_center", "visa_category", "visa_sub_category">>

KeySet == {appointment_param_keys[i] : i \in 1..Len(appointment_param_keys)}

\* ------------------------------------------------------------ input spaces
NoneVal == "<None>"
ChannelIds == {"email", "sms"}
DateStrings == {"2024-05-01", "2024-05-03"}
PromptInputs == {"typed"}

\* The value a caller passes on the command line for a key.
ProvidedValue(key) ==
    CASE key = "visa_center" -> "Dublin"
      [] key = "visa_category" -> "Schengen"
      [] OTHER -> "Tourist"

SeqsUpTo(S, n) == UNION {[1..k -> S] : k \in 0..n}

\* notification.channels as the list of identifiers between its commas; the
\* empty string is the empty list (identifiers themselves are non-empty).
ChannelStrings == SeqsUpTo(ChannelIds, MaxChannels)

ChannelSettings ==
    {[present |-> FALSE, value |-> <<>>]}
    \cup {[present |-> TRUE, value |-> v] : v \in ChannelStrings}

Configs ==
    [url : BOOLEAN, email : BOOLEAN, password : BOOLEAN,
     channels : ChannelSettings]

\* argparse.Namespace passed to run: no namespace at all (args=None), a
\* namespace whose appointment_params is None, or one whose
\* appointment_params maps some of the keys to a value or to None.
\* Each key of the dict is absent, maps to None, or maps to a value.
Absent == "<absent>"
ArgDicts == [KeySet -> {"value", NoneVal, Absent}]
NoDict == [k \in KeySet |-> Absent]

Args ==
    {[ns |-> FALSE, params |-> FALSE, dict |-> NoDict],
     [ns |-> TRUE, params |-> FALSE, dict |-> NoDict]}
    \cup {[ns |-> TRUE, params |-> TRUE, dict |-> d] : d \in ArgDicts}

\* Exceptions an arbitrary adapter capability may raise.
AdapterExceptions == {"TimeoutError", "Exception"}

DateLists == SeqsUpTo(DateStrings, MaxDates)
NoDates == [kind |-> "none", list |-> <<>>]
UnsetDates == [kind |-> "unset", list |-> <<>>]
ListOf(l) == [kind |-> "list", list |-> l]

VARIABLES
    adapter,            \* "nl" (VfsBotNl) or "fake" (any other subclass)
    config,             \* the process-wide configuration
    args,               \* the argument of run
    pc,                 \* position of the run
    session,            \* "none", "open", "closed": the launched browser
    teardowns,          \* how many times the session was torn down / closed
    exc,                \* exception propagating out of run ("none" if none)
    retval,             \* "unset", "None", "True", "False"
    appointment_params, \* the mapping built by get_appointment_params
                        \* (Absent: the key is not in the mapping)
    keyIdx,             \* loop position of get_appointment_params
    prompts,            \* keys for which input() was called, in order
    dates,              \* what check_for_appontment returned
    appointment_found,  \* local of run
    message,            \* local of notify_appointment (sequence of pieces)
    chanIdx,            \* loop position of notify_appointment
    resolved,           \* channels handed to get_notification_client
    attempts,           \* send_notification calls: [channel, message, ok]
    thrown,             \* exceptions raised by the steps: [stage, kind]
    cookie,             \* the cookie banner pre_login_steps met and what
                        \* VfsBotNl did about its button: [banner, click]
    trace               \* steps executed, in order

vars == <<adapter, config, args, pc, session, teardowns, exc, retval,
          appointment_params, keyIdx, prompts, dates, appointment_found,
          message, chanIdx, resolved, attempts, thrown, cookie, trace>>

inputs == <<adapter, config, args>>
paramVars == <<appointment_params, keyIdx, prompts>>
notifyVars == <<message, chanIdx, resolved, attempts>>

Init ==
    /\ adapter \in {"nl", "fake"}
    /\ config \in Configs
    /\ args \in Args
    /\ pc = "config"
    /\ session = "none"
    /\ teardowns = 0
    /\ exc = "none"
    /\ retval = "unset"
    /\ appointment_params = NoDict
    /\ keyIdx = 1
    /\ prompts = <<>>
    /\ dates = UnsetDates
    /\ appointment_found = FALSE
    /\ message = <<>>
    /\ chanIdx = 1
    /\ resolved = <<>>
    /\ attempts = <<>>
    /\ thrown = <<>>
    /\ cookie = [banner |-> "unknown", click |-> "none"]
    /\ trace = <<>>

\* ------------------------------------------------------------ configuration
\* get_config_value(section, key, default): the stored value, the default
\* when one is given, otherwise a KeyError.
get_config_value(present, hasDefault) ==
    IF present \/ hasDefault THEN "ok" ELSE "KeyError"

\* An exception leaves run before the `with` block was entered.
RaiseOutside(stage, kind) ==
    /\ exc' = kind
    /\ thrown' = Append(thrown, [stage |-> stage, kind |-> kind])
    /\ pc' = "done"

\* run, lines 59-67: browser.type and browser.headless have defaults, the
\* URL has none; a KeyError is logged and run returns None.
ReadConfig ==
    /\ pc = "config"
    /\ IF get_config_value(config.url, FALSE) = "ok"
       THEN /\ pc' = "credentials"
            /\ UNCHANGED <<retval>>
       ELSE /\ pc' = "done"
            /\ retval' = "None"
    /\ UNCHANGED <<inputs, cookie, session, teardowns, exc, paramVars, dates,
                   appointment_found, notifyVars, thrown, trace>>

\* Variant: the parameters are not collected before the browser is launched.
ReadCredentialsThenLaunch ==
    /\ pc = "credentials"
    /\ IF /\ get_config_value(config.email, FALSE) = "ok"
          /\ get_config_value(config.password, FALSE) = "ok"
       THEN /\ pc' = "launch"
            /\ UNCHANGED <<exc, thrown>>
       ELSE RaiseOutside("config", "KeyError")
    /\ UNCHANGED <<inputs, cookie, session, teardowns, retval, paramVars, dates,
                   appointment_found, notifyVars, trace>>

\* run, lines 69-70: the credentials are read outside the try block.
ReadCredentials ==
    /\ pc = "credentials"
    /\ IF /\ get_config_value(config.email, FALSE) = "ok"
          /\ get_config_value(config.password, FALSE) = "ok"
       THEN /\ pc' = "params"
            /\ UNCHANGED <<exc, thrown>>
       ELSE RaiseOutside("config", "KeyError")
    /\ UNCHANGED <<inputs, cookie, session, teardowns, retval, paramVars, dates,
                   appointment_found, notifyVars, trace>>

\* ------------------------------------------------- get_appointment_params
\* One iteration of the loop of get_appointment_params for `key`: what the
\* condition of lines 186-189 evaluates to, or the exception it raises.
\* getattr(None, "appointment_params") raises AttributeError and
\* args.appointment_params[key] raises KeyError for an absent key.
ParamLookup(a, key) ==
    IF ~a.ns THEN "AttributeError"
    ELSE IF ~a.params THEN "prompt"
    ELSE IF a.dict[key] = Absent THEN "KeyError"
    ELSE IF a.dict[key] = NoneVal THEN "prompt"
    ELSE "provided"

\* run line 72 with get_appointment_params, lines 184-194, one key per step.
GetAppointmentParams ==
    /\ pc = "params"
    /\ trace' = IF keyIdx = 1 THEN Append(trace, "get_appointment_params")
                ELSE trace
    /\ IF keyIdx > Len(appointment_param_keys)
       THEN /\ pc' = "launch"
            /\ UNCHANGED <<exc, thrown, paramVars>>
       ELSE LET key == appointment_param_keys[keyIdx]
                how == ParamLookup(args, key)
            IN  CASE how = "provided" ->
                       /\ appointment_params' =
                              [appointment_params EXCEPT ![key] = ProvidedValue(key)]
                       /\ keyIdx' = keyIdx + 1
                       /\ UNCHANGED <<pc, exc, thrown, prompts>>
                  [] how = "prompt" ->
                       /\ \E typed \in PromptInputs :
                              appointment_params' =
                                  [appointment_params EXCEPT ![key] = typed]
                       /\ prompts' = Append(prompts, key)
                       /\ keyIdx' = keyIdx + 1
                       /\ UNCHANGED <<pc, exc, thrown>>
                  [] OTHER ->
                       /\ RaiseOutside("get_appointment_params", how)
                       /\ UNCHANGED <<paramVars>>
    /\ UNCHANGED <<inputs, cookie, session, teardowns, retval, dates,
                   appointment_found, notifyVars>>

\* ------------------------------------------------------ the `with` block
\* An exception propagates out of the body of `with sync_playwright()`.
RaiseInside(stage, kind) ==
    /\ exc' = kind
    /\ thrown' = Append(thrown, [stage |-> stage, kind |-> kind])
    /\ pc' = "with_exit"

\* run, lines 76-79: getattr(p, browser_type).launch(...)
LaunchBrowser ==
    /\ pc = "launch"
    /\ trace' = Append(trace, "launch")
    /\ \E ok \in BOOLEAN :
          IF ok THEN /\ session' = "open"
                     /\ pc' = "new_page"
                     /\ UNCHANGED <<exc, thrown>>
                ELSE /\ RaiseInside("launch", "Error")
                     /\ UNCHANGED session
    /\ UNCHANGED <<inputs, cookie, teardowns, retval, paramVars, dates,
                   appointment_found, notifyVars>>

\* run, line 87: browser.new_page()
NewPage ==
    /\ pc = "new_page"
    /\ trace' = Append(trace, "new_page")
    /\ \E ok \in BOOLEAN :
          IF ok THEN /\ pc' = "goto"
                     /\ UNCHANGED <<exc, thrown>>
                ELSE RaiseInside("new_page", "Error")
    /\ UNCHANGED <<inputs, cookie, session, teardowns, retval, paramVars, dates,
                   appointment_found, notifyVars>>

\* run, line 107: page.goto(vfs_url)
Navigate ==
    /\ pc = "goto"
    /\ trace' = Append(trace, "goto")
    /\ \E r \in {"ok", "Error", "TimeoutError"} :
          IF r = "ok" THEN /\ pc' = "challenge"
                           /\ UNCHANGED <<exc, thrown>>
                      ELSE RaiseInside("goto", r)
    /\ UNCHANGED <<inputs, cookie, session, teardowns, retval, paramVars, dates,
                   appointment_found, notifyVars>>

\* Variant: an expired wait is swallowed and the run goes on.
WaitChallengeSwallowed ==
    /\ pc = "challenge"
    /\ trace' = Append(trace, "wait_challenge")
    /\ pc' = "pre_login"
    /\ \E appeared \in BOOLEAN :
          thrown' = IF appeared THEN thrown
                    ELSE Append(thrown, [stage |-> "challenge",
                                         kind |-> "TimeoutError"])
    /\ UNCHANGED <<inputs, cookie, session, teardowns, exc, retval, paramVars, dates,
                   appointment_found, notifyVars>>

\* Variant: the wait carries no timeout; without the marker it never returns.
WaitChallengeUnbounded ==
    /\ pc = "challenge"
    /\ trace' = Append(trace, "wait_challenge")
    /\ \E appeared \in BOOLEAN :
          pc' = IF appeared THEN "pre_login" ELSE "blocked"
    /\ UNCHANGED <<inputs, cookie, session, teardowns, exc, retval, thrown,
                   paramVars, dates, appointment_found, notifyVars>>

\* run, lines 109-110: page.wait_for_selector(marker, timeout=300000); the
\* Playwright TimeoutError of an expired wait is not handled.
WaitChallenge ==
    /\ pc = "challenge"
    /\ trace' = Append(trace, "wait_challenge")
    /\ \E appeared \in BOOLEAN :
          IF appeared THEN /\ pc' = "pre_login"
                           /\ UNCHANGED <<exc, thrown>>
                      ELSE RaiseInside("challenge", "TimeoutError")
    /\ UNCHANGED <<inputs, cookie, session, teardowns, retval, paramVars, dates,
                   appointment_found, notifyVars>>

\* ---------------------------------------------------------- the adapter
\* VfsBotNl.pre_login_steps: get_by_role returns a locator, never None, so
\* the click is always attempted; clicking a button that is not on the page
\* ends in Playwright's TimeoutError.
NlPreLoginSteps(buttonPresent) ==
    LET locatorIsNone == FALSE
    IN  IF ~locatorIsNone
        THEN (IF buttonPresent THEN "ok" ELSE "TimeoutError")
        ELSE "ok"

\* VfsBotNl.login on a page where the named elements do or do not show up:
\* both waits re-raise a plain Exception, fill and click are unguarded.
NlLogin(page) ==
    IF ~(page.email /\ page.password) THEN "Exception"
    ELSE IF ~page.signIn THEN "TimeoutError"
    ELSE IF ~page.booking THEN "Exception"
    ELSE "ok"

LoginPages == [email : BOOLEAN, password : BOOLEAN, signIn : BOOLEAN, booking : BOOLEAN]

\* VfsBotNl.check_for_appontment: every step runs inside one try whose
\* handler returns None; failAt is the first step that raises (0: none) and
\* extracted is what extract_date_from_string makes of the element's text.
NlCheckSteps == 6

\* Variant: the steps run without the try, so a failing step raises.
NlCheckForAppontmentUnguarded(failAt, extracted) ==
    IF failAt /= 0 THEN [raised |-> "TimeoutError", result |-> UnsetDates]
    ELSE [raised |-> "none", result |-> extracted]

\* The outcome [raised, result] of VfsBotNl.check_for_appontment.
NlCheckForAppontment(failAt, extracted) ==
    IF failAt /= 0 THEN [raised |-> "none", result |-> NoDates]
    ELSE [raised |-> "none", result |-> extracted]

CheckResults == {NoDates} \cup {ListOf(l) : l \in DateLists}

\* Whether the "Accept Only Necessary" button is on the page; it matters to
\* VfsBotNl only.
Banners == IF adapter = "nl" THEN {"present", "absent"} ELSE {"unknown"}

\* What each capability of the adapter can do: "ok" or the exception raised.
PreLoginOutcomes(banner) ==
    IF adapter = "nl" THEN {NlPreLoginSteps(banner = "present")}
    ELSE {"ok"} \cup AdapterExceptions

\* What became of the click of VfsBotNl.pre_login_steps, line 82.
ClickResult(outcome) ==
    IF adapter /= "nl" THEN "none"
    ELSE IF outcome = "ok" THEN "clicked" ELSE "timed_out"

LoginOutcomes ==
    IF adapter = "nl" THEN {NlLogin(pg) : pg \in LoginPages}
    ELSE {"ok"} \cup AdapterExceptions

\* [raised, result]: the exception, or the returned value.
CheckOutcomes ==
    IF adapter = "nl"
    THEN {NlCheckForAppontment(f, x) :
              f \in 0..NlCheckSteps, x \in CheckResults}
    ELSE {[raised |-> "none", result |-> r] : r \in CheckResults}
         \cup {[raised |-> e, result |-> UnsetDates] : e \in AdapterExceptions}

\* ------------------------------------------------- run, pre-login and login
\* Variant: pre_login_steps sits inside the try of the login step.
PreLoginInsideLoginTry ==
    /\ pc = "pre_login"
    /\ \E b \in Banners : \E r \in PreLoginOutcomes(b) :
       /\ cookie' = [banner |-> b, click |-> ClickResult(r)]
       /\ IF r = "ok"
          THEN /\ pc' = "login"
               /\ trace' = Append(trace, "pre_login_steps")
               /\ UNCHANGED <<exc, thrown, session, teardowns>>
          ELSE /\ session' = "closed"
               /\ teardowns' = teardowns + 1
               /\ trace' = trace \o <<"pre_login_steps", "browser.close">>
               /\ exc' = "LoginError"
               /\ thrown' = Append(thrown, [stage |-> "pre_login", kind |-> r])
               /\ pc' = "with_exit"
    /\ UNCHANGED <<inputs, retval, paramVars, dates, appointment_found,
                   notifyVars>>

\* run, lines 133-136: self.pre_login_steps(page), not guarded.
PreLogin ==
    /\ pc = "pre_login"
    /\ trace' = Append(trace, "pre_login_steps")
    /\ \E b \in Banners : \E r \in PreLoginOutcomes(b) :
       /\ cookie' = [banner |-> b, click |-> ClickResult(r)]
       /\ IF r = "ok" THEN /\ pc' = "login"
                           /\ UNCHANGED <<exc, thrown>>
                      ELSE RaiseInside("pre_login", r)
    /\ UNCHANGED <<inputs, session, teardowns, retval, paramVars, dates,
                   appointment_found, notifyVars>>

\* Variant: the handler re-raises what it caught.
LoginFailureReraise(kind) == kind

\* run, lines 142-147: what the handler of the login try raises for an
\* exception `kind` of the adapter.
LoginFailure(kind) == "LoginError"

\* Variant: a failed login is tried a second time.
LoginRetriesOnce ==
    /\ pc = "login"
    /\ \E r \in LoginOutcomes :
          IF r = "ok"
          THEN /\ pc' = "check"
               /\ trace' = Append(trace, "login")
               /\ UNCHANGED <<exc, thrown, session, teardowns>>
          ELSE IF \A i \in 1..Len(thrown) : thrown[i].stage /= "login"
          THEN /\ trace' = Append(trace, "login")
               /\ thrown' = Append(thrown, [stage |-> "login", kind |-> r])
               /\ UNCHANGED <<pc, exc, session, teardowns>>
          ELSE /\ session' = "closed"
               /\ teardowns' = teardowns + 1
               /\ trace' = trace \o <<"login", "browser.close">>
               /\ exc' = "LoginError"
               /\ thrown' = Append(thrown, [stage |-> "login", kind |-> r])
               /\ pc' = "with_exit"
    /\ UNCHANGED <<inputs, cookie, retval, paramVars, dates, appointment_found,
                   notifyVars>>

\* Variant: a failed login is logged and run returns False.
LoginFailureReturnsFalse ==
    /\ pc = "login"
    /\ \E r \in LoginOutcomes :
          IF r = "ok"
          THEN /\ pc' = "check"
               /\ trace' = Append(trace, "login")
               /\ UNCHANGED <<thrown, session, teardowns, retval>>
          ELSE /\ session' = "closed"
               /\ teardowns' = teardowns + 1
               /\ trace' = trace \o <<"login", "browser.close">>
               /\ retval' = "False"
               /\ thrown' = Append(thrown, [stage |-> "login", kind |-> r])
               /\ pc' = "with_exit"
    /\ UNCHANGED <<inputs, cookie, exc, paramVars, dates, appointment_found,
                   notifyVars>>

\* run, lines 138-147: self.login(...); on any Exception browser.close()
\* and raise LoginError.
Login ==
    /\ pc = "login"
    /\ \E r \in LoginOutcomes :
          IF r = "ok"
          THEN /\ pc' = "check"
               /\ trace' = Append(trace, "login")
               /\ UNCHANGED <<exc, thrown, session, teardowns>>
          ELSE /\ session' = "closed"
               /\ teardowns' = teardowns + 1
               /\ trace' = trace \o <<"login", "browser.close">>
               /\ exc' = LoginFailure(r)
               /\ thrown' = thrown \o <<[stage |-> "login", kind |-> r],
                                        [stage |-> "run", kind |-> LoginFailure(r)]>>
               /\ pc' = "with_exit"
    /\ UNCHANGED <<inputs, cookie, retval, paramVars, dates, appointment_found,
                   notifyVars>>

\* ------------------------------------------------------ notify_appointment
RECURSIVE Join(_, _)
\* sep.join(items), as the sequence of its pieces.
Join(items, sep) ==
    IF Len(items) = 0 THEN <<>>
    ELSE IF Len(items) = 1 THEN <<items[1]>>
    ELSE <<items[1], sep>> \o Join(Tail(items), sep)

\* appointment_params.values(): the values in insertion (= key) order.
Values(params) ==
    [i \in 1..Len(appointment_param_keys) |-> params[appointment_param_keys[i]]]

\* notify_appointment, line 206.
FormatMessage(params, ds) ==
    <<"Found appointment(s) for ">> \o Join(Values(params), ", ")
        \o <<" on ">> \o Join(ds, ", ")

\* Variant: the empty-list test is missing.
NoChannelsNever(channels) == FALSE

\* notify_appointment, line 208: len(channels) == 0.
NoChannels(channels) == Len(channels) = 0

\* channels.split(","): the identifiers between the commas; the empty
\* string splits into one empty identifier.
Split(channels) == IF Len(channels) = 0 THEN <<"">> ELSE channels

\* get_notification_client(channel): the client of a channel the factory
\* knows, an exception for any other.
get_notification_client(channel, known) ==
    IF known THEN "ok" ELSE "Exception"

\* Variant: the test is `dates is not None`.
TruthyNotNone(d) == d.kind = "list"

\* if dates: (run, line 153) - None and the empty list are both false.
Truthy(d) == d.kind = "list" /\ Len(d.list) > 0

\* An exception reaches the handler of run, lines 165-166: it is logged and
\* the run goes on to browser.close() with appointment_found unchanged.
CaughtByRun(stage, kind) ==
    /\ thrown' = Append(thrown, [stage |-> stage, kind |-> kind])
    /\ pc' = "close"

\* run, lines 149-164: the call of check_for_appontment and the test of
\* its result.
CheckForAppointment ==
    /\ pc = "check"
    /\ trace' = Append(trace, "check_for_appontment")
    /\ \E o \in CheckOutcomes :
          IF o.raised /= "none"
          THEN /\ CaughtByRun("check_for_appontment", o.raised)
               /\ UNCHANGED dates
          ELSE /\ dates' = o.result
               /\ pc' = IF Truthy(o.result) THEN "notify" ELSE "close"
               /\ UNCHANGED thrown
    /\ UNCHANGED <<inputs, cookie, session, teardowns, exc, retval, paramVars,
                   appointment_found, notifyVars>>

\* Variant: notify_appointment is called outside the try of run, so the
\* KeyError of the channel lookup leaves run.
NotifyAppointmentUnguarded ==
    /\ pc = "notify"
    /\ trace' = Append(trace, "notify_appointment")
    /\ message' = FormatMessage(appointment_params, dates.list)
    /\ IF get_config_value(config.channels.present, FALSE) /= "ok"
       THEN /\ RaiseInside("notify_appointment", "KeyError")
            /\ UNCHANGED appointment_found
       ELSE IF NoChannels(config.channels.value)
       THEN /\ appointment_found' = TRUE
            /\ pc' = "close"
            /\ UNCHANGED <<thrown, exc>>
       ELSE /\ pc' = "notify_loop"
            /\ UNCHANGED <<thrown, exc, appointment_found>>
    /\ UNCHANGED <<inputs, cookie, session, teardowns, retval, paramVars, dates,
                   chanIdx, resolved, attempts>>

\* notify_appointment, lines 206-212, called from run line 158: the message,
\* the channel lookup and the empty-list return.
NotifyAppointment ==
    /\ pc = "notify"
    /\ trace' = Append(trace, "notify_appointment")
    /\ message' = FormatMessage(appointment_params, dates.list)
    /\ IF get_config_value(config.channels.present, FALSE) /= "ok"
       THEN /\ CaughtByRun("notify_appointment", "KeyError")
            /\ UNCHANGED appointment_found
       ELSE IF NoChannels(config.channels.value)
       THEN /\ appointment_found' = TRUE
            /\ pc' = "close"
            /\ UNCHANGED thrown
       ELSE /\ pc' = "notify_loop"
            /\ UNCHANGED <<thrown, appointment_found>>
    /\ UNCHANGED <<inputs, cookie, session, teardowns, exc, retval, paramVars, dates,
                   chanIdx, resolved, attempts>>

\* notify_appointment, lines 214-219: one iteration of the loop; the client
\* is resolved outside the try, the delivery inside it.  After the last
\* channel notify_appointment returns and run sets appointment_found.
NotifyChannel ==
    /\ pc = "notify_loop"
    /\ LET channels == Split(config.channels.value)
           channel == channels[chanIdx]
       IN  /\ resolved' = Append(resolved, channel)
           /\ \E known \in BOOLEAN, delivered \in BOOLEAN :
                 IF get_notification_client(channel, known) /= "ok"
                 THEN /\ CaughtByRun("get_notification_client",
                                     get_notification_client(channel, known))
                      /\ UNCHANGED <<attempts, chanIdx, appointment_found>>
                 ELSE /\ attempts' = Append(attempts,
                              [channel |-> channel, message |-> message,
                               ok |-> delivered])
                      /\ thrown' = IF delivered THEN thrown
                                   ELSE Append(thrown,
                                            [stage |-> "send_notification",
                                             kind |-> "Exception"])
                      /\ chanIdx' = chanIdx + 1
                      /\ IF chanIdx = Len(channels)
                         THEN /\ appointment_found' = TRUE
                              /\ pc' = "close"
                         ELSE UNCHANGED <<appointment_found, pc>>
    /\ UNCHANGED <<inputs, cookie, session, teardowns, exc, retval, paramVars, dates,
                   message, trace>>

\* -------------------------------------------------------------- teardown
\* run, lines 167-168: browser.close(); return appointment_found.
CloseAndReturn ==
    /\ pc = "close"
    /\ trace' = Append(trace, "browser.close")
    /\ session' = "closed"
    /\ teardowns' = teardowns + 1
    /\ retval' = IF appointment_found THEN "True" ELSE "False"
    /\ pc' = "with_exit"
    /\ UNCHANGED <<inputs, cookie, exc, paramVars, dates, appointment_found,
                   notifyVars, thrown>>

\* Variant: leaving the block does not end a running browser.
SessionAfterStopLeak(s) == s

\* Leaving `with sync_playwright()`: Playwright is stopped, which ends a
\* browser that is still running; a closed browser is left as it is.
SessionAfterStop(s) == IF s = "open" THEN "closed" ELSE s

\* run, line 75: the exit of the `with` block, by return or by exception.
PlaywrightExit ==
    /\ pc = "with_exit"
    /\ trace' = Append(trace, "playwright.stop")
    /\ session' = SessionAfterStop(session)
    /\ teardowns' = IF session' /= session THEN teardowns + 1 ELSE teardowns
    /\ pc' = "done"
    /\ UNCHANGED <<inputs, cookie, exc, retval, paramVars, dates, appointment_found,
                   notifyVars, thrown>>

Next ==
    \/ ReadConfig
    \/ ReadCredentials
    \/ GetAppointmentParams
    \/ LaunchBrowser
    \/ NewPage
    \/ Navigate
    \/ WaitChallenge
    \/ PreLogin
    \/ Login
    \/ CheckForAppointment
    \/ NotifyAppointment
    \/ NotifyChannel
    \/ CloseAndReturn
    \/ PlaywrightExit

Spec == Init /\ [][Next]_vars

\* A run is one sequential thread: as long as a step can be taken (each
\* bounded wait returns or times out, each prompt is answered) it is taken.
FairSpec == Spec /\ WF_vars(Next)
\* ================================================================ properties
Done == pc = "done"
ThrownAt(stage) == \E i \in 1..Len(thrown) : thrown[i].stage = stage
KindsAt(stage) == {thrown[i].kind : i \in {j \in 1..Len(thrown) : thrown[j].stage = stage}}
Count(seq, x) == Cardinality({i \in 1..Len(seq) : seq[i] = x})
InTrace(step) == Count(trace, step) > 0
Pieces(msg) == {msg[i] : i \in 1..Len(msg)}
RequiredKeysPresent == config.url /\ config.email /\ config.password
NotifyFailed ==
    ThrownAt("notify_appointment") \/ ThrownAt("get_notification_client")
        \/ ThrownAt("send_notification")

\* C1: every run that opened a browser session ends, by return or by
\* exception, with the session closed, and the session was closed exactly
\* once; at no point of a run has it been closed twice.
C1_SessionClosedExactlyOnce ==
    /\ teardowns <= 1
    /\ (session = "closed") <=> (teardowns = 1)
    /\ (Done /\ session /= "none") => (session = "closed" /\ teardowns = 1)

\* C1 witness: a run whose pre_login_steps raised has ended with the
\* session closed once.
C1_Witness ==
    Done /\ ThrownAt("pre_login") /\ session = "closed" /\ teardowns = 1

\* C2 (as stated): a run whose configuration lacks a required key (URL,
\* e-mail, password) ends without a session, without an exception, and
\* without any step, prompt or notification having happened.
C2_MissingKeyAbortsCleanly ==
    (Done /\ ~RequiredKeysPresent) =>
        /\ session = "none"
        /\ exc = "none"
        /\ trace = <<>>
        /\ prompts = <<>>
        /\ attempts = <<>>

\* C3 (as stated): when check_for_appontment returned a non-empty list,
\* notify_appointment was invoked exactly once with a message holding every
\* query value and every date, and run returned True.
C3_FoundNotifiesOnceAndReturnsTrue ==
    (Done /\ dates.kind = "list" /\ dates.list /= <<>>) =>
        /\ Count(trace, "notify_appointment") = 1
        /\ \A k \in KeySet : appointment_params[k] \in Pieces(message)
        /\ \A i \in 1..Len(dates.list) : dates.list[i] \in Pieces(message)
        /\ retval = "True"
        /\ exc = "none"

\* C4: when check_for_appontment returned the empty list or None, or raised,
\* notify_appointment is never invoked (no client resolved, no delivery),
\* run returns False and no exception escapes.
C4_NoDatesNoNotify ==
    (/\ InTrace("check_for_appontment")
     /\ \/ dates.kind = "none"
        \/ dates.kind = "list" /\ dates.list = <<>>
        \/ ThrownAt("check_for_appontment")) =>
        /\ ~InTrace("notify_appointment")
        /\ resolved = <<>> /\ attempts = <<>>
        /\ ~appointment_found
        /\ exc = "none"
        /\ Done => retval = "False"

\* C4 witness: a finished run whose check_for_appontment raised.
C4_Witness ==
    Done /\ ThrownAt("check_for_appontment") /\ retval = "False"

\* C5 (as stated): whenever check_for_appontment returned a non-empty list,
\* run returns True although the notification failed (channel lookup, client
\* resolution or delivery).
C5_NotificationFailureKeepsTrue ==
    (Done /\ dates.kind = "list" /\ Len(dates.list) > 0 /\ NotifyFailed) =>
        retval = "True"

\* C6 (as stated): once notify_appointment is over for a non-empty channel
\* list, every configured channel has had exactly one delivery attempt with
\* the same message, in list order, and nothing escaped notify_appointment.
C6_FanOutAttemptsEveryChannel ==
    (/\ InTrace("notify_appointment")
     /\ pc \in {"close", "with_exit", "done"}
     /\ config.channels.present
     /\ Len(config.channels.value) > 0) =>
        /\ [i \in 1..Len(attempts) |-> attempts[i].channel] = config.channels.value
        /\ \A i \in 1..Len(attempts) : attempts[i].message = message
        /\ ~ThrownAt("get_notification_client")

\* C7: with an empty notification.channels value notify_appointment returns
\* normally (run goes on to set appointment_found), no client is resolved
\* and no delivery is attempted.
C7_EmptyChannelsNoDelivery ==
    (/\ InTrace("notify_appointment")
     /\ config.channels.present
     /\ Len(config.channels.value) = 0) =>
        /\ resolved = <<>> /\ attempts = <<>>
        /\ ~NotifyFailed
        /\ pc \in {"close", "with_exit", "done"}
        /\ appointment_found

\* C7 witness: a finished run that notified with an empty channel value.
C7_Witness ==
    /\ Done /\ InTrace("notify_appointment")
    /\ config.channels.present /\ Len(config.channels.value) = 0
    /\ retval = "True"

\* C8: whatever the adapter's login raised, the exception leaving run is a
\* LoginError, and the session is already closed while it propagates.
C8_LoginFailureRaisesLoginError ==
    ThrownAt("login") =>
        /\ exc = "LoginError"
        /\ session = "closed" /\ teardowns = 1
        /\ pc \in {"with_exit", "done"}
        /\ retval = "unset"

\* C8 witness: the adapter's login raised a TimeoutError and the caller got
\* a LoginError.
C8_Witness ==
    Done /\ "TimeoutError" \in KindsAt("login") /\ exc = "LoginError"

AbortingStages == {"challenge", "pre_login", "login"}
StepIndex(step) == CHOOSE i \in 1..Len(trace) : trace[i] = step
Before(a, b) == InTrace(a) /\ InTrace(b) /\ StepIndex(a) < StepIndex(b)

\* C11: after a failure of the challenge wait, of pre_login_steps or of
\* login an error escapes run (no value is returned), and no later step
\* runs: no login after a pre-login failure, no check_for_appontment and no
\* notify_appointment after any of the three.
C11_FatalFailuresSurface ==
    (\E st \in AbortingStages : ThrownAt(st)) =>
        /\ exc /= "none"
        /\ retval = "unset"
        /\ pc \in {"with_exit", "done"}
        /\ ~InTrace("check_for_appontment")
        /\ ~InTrace("notify_appointment")
        /\ (ThrownAt("challenge") \/ ThrownAt("pre_login")) => ~InTrace("login")
        /\ ThrownAt("challenge") => ~InTrace("pre_login_steps")

\* C11 witness: a finished run whose login failed and whose caller got an
\* error and no value.
C11_Witness ==
    Done /\ ThrownAt("login") /\ exc /= "none" /\ retval = "unset"
Provided(key) == args.ns /\ args.params /\ args.dict[key] = "value"
CollectorReturnedOrRaised == InTrace("get_appointment_params") /\ pc /= "params"

\* C12 (as stated): get_appointment_params returns a mapping over exactly
\* the declared keys, each holding the provided value when one was given
\* and a prompted one otherwise, and it prompts exactly for the keys that
\* are missing or null (absent from the mapping, or no arguments at all), in
\* declared order.
C12_ParamsProvidedOrPrompted ==
    CollectorReturnedOrRaised =>
        /\ ~ThrownAt("get_appointment_params")
        /\ \A k \in KeySet :
              IF Provided(k) THEN appointment_params[k] = ProvidedValue(k)
              ELSE appointment_params[k] \in PromptInputs
        /\ prompts = SelectSeq(appointment_param_keys, LAMBDA k : ~Provided(k))

AdapterSteps == {"pre_login_steps", "login", "check_for_appontment"}
WorkSteps == AdapterSteps \cup {"wait_challenge", "notify_appointment"}
ClosingSteps == {"browser.close", "playwright.stop"}

\* C13: the steps of a run happen in the order challenge wait, pre-login,
\* login, query, notification, each only after the one before it succeeded;
\* the adapter is used only on an open session (after the launch, before
\* any close), and nothing of these follows a close of the session.
C13_StepsInOrderOnOpenSession ==
    /\ InTrace("pre_login_steps") =>
          (Before("wait_challenge", "pre_login_steps") /\ ~ThrownAt("challenge"))
    /\ InTrace("login") =>
          (Before("pre_login_steps", "login") /\ ~ThrownAt("pre_login"))
    /\ InTrace("check_for_appontment") =>
          (Before("login", "check_for_appontment") /\ ~ThrownAt("login"))
    /\ InTrace("notify_appointment") =>
          /\ Before("check_for_appontment", "notify_appointment")
          /\ dates.kind = "list" /\ ~ThrownAt("check_for_appontment")
    /\ \A i \in 1..Len(trace) : trace[i] \in WorkSteps =>
          /\ Before("launch", trace[i])
          /\ \A j \in 1..Len(trace) : trace[j] \in ClosingSteps => i < j
    /\ pc \in {"pre_login", "login", "check", "notify", "notify_loop"} =>
          session = "open"

\* C13 witness: a finished run that went through every step up to the
\* notification and then closed the session.
C13_Witness ==
    /\ Done /\ InTrace("notify_appointment") /\ attempts /= <<>>
    /\ session = "closed"
PromptedKeys == SelectSeq(appointment_param_keys, LAMBDA k : ~Provided(k))

\* C14 (as stated): the Parameter Collector runs in the query step, after a
\* successful login; a run whose challenge wait, pre-login or login failed
\* has not invoked it and has issued no prompt.
C14_CollectorRunsInQueryStep ==
    /\ InTrace("check_for_appontment") =>
          Before("login", "get_appointment_params")
    /\ (Done /\ \E st \in AbortingStages : ThrownAt(st)) =>
          (~InTrace("get_appointment_params") /\ prompts = <<>>)

\* C14 (amended): the Parameter Collector runs once, after the configuration
\* was read and before the browser is launched; whenever a session exists
\* the query is complete, so a run whose challenge wait, pre-login or login
\* fails has already invoked the collector and issued its prompts (one per
\* key that was not provided), and none is issued afterwards.
C14_CollectorRunsBeforeSession ==
    /\ Count(trace, "get_appointment_params") <= 1
    /\ InTrace("launch") =>
          /\ Before("get_appointment_params", "launch")
          /\ keyIdx = Len(appointment_param_keys) + 1
          /\ \A k \in KeySet : appointment_params[k] /= Absent
          /\ prompts = PromptedKeys
    /\ (\E st \in AbortingStages : ThrownAt(st)) =>
          (InTrace("get_appointment_params") /\ prompts = PromptedKeys)

\* C14 witness: a finished run whose challenge wait expired after the user
\* had been prompted.
C14_Witness ==
    Done /\ ThrownAt("challenge") /\ prompts /= <<>>

\* C15: within a run pre_login_steps, login and check_for_appontment are
\* each invoked at most once and at most one browser session is opened,
\* also when the step failed.
C15_NoRetry ==
    \A step \in AdapterSteps \cup {"launch", "new_page", "goto", "wait_challenge"} :
        Count(trace, step) <= 1

\* C15 witness: a finished run whose login failed after a single attempt.
C15_Witness ==
    Done /\ ThrownAt("login") /\ Count(trace, "login") = 1
C17_AbsentBannerIsBenign ==
    (adapter = "nl" /\ cookie.banner = "absent") =>
        /\ cookie.click = "none"
        /\ ~ThrownAt("pre_login")
        /\ exc = "none"
        /\ pc \notin {"with_exit", "done"} \/ InTrace("login")

LoginReturned == InTrace("login") /\ ~ThrownAt("login")

\* C18: once login has returned, no exception leaves run: whatever
\* check_for_appontment or notify_appointment raises (channel lookup and
\* client resolution included) is caught, the run goes on to close the
\* session and returns a boolean.
C18_NoRaiseAfterLogin ==
    LoginReturned =>
        /\ exc = "none"
        /\ (\/ ThrownAt("check_for_appontment")
            \/ ThrownAt("notify_appointment")
            \/ ThrownAt("get_notification_client")) =>
               (pc \in {"close", "with_exit", "done"} /\ ~appointment_found)
        /\ Done => /\ retval \in {"True", "False"}
                   /\ session = "closed" /\ teardowns = 1

\* C18 witness: the resolution of a channel's client raised and run still
\* returned a boolean.
C18_Witness ==
    /\ Done /\ ThrownAt("get_notification_client")
    /\ exc = "none" /\ retval = "False"

\* C19: VfsBotNl.check_for_appontment never raises; a failed query comes
\* back as None, is treated as no appointment found, and run returns False.
C19_NlCheckNeverThrows ==
    adapter = "nl" =>
        /\ ~ThrownAt("check_for_appontment")
        /\ (InTrace("check_for_appontment") /\ pc /= "check"
                /\ dates.kind /= "list") =>
              /\ dates.kind = "none"
              /\ ~InTrace("notify_appointment")
              /\ exc = "none"
              /\ Done => retval = "False"

\* C19 witness: a finished run of the Netherlands adapter whose query came
\* back as None.
C19_Witness ==
    /\ Done /\ adapter = "nl" /\ InTrace("check_for_appontment")
    /\ dates.kind = "none" /\ thrown = <<>> /\ retval = "False"
====
